---- MODULE Spec2Model ----
(***************************************************************************)
(* Model of the Lua accessors of rspamd's text parts and mime parts        *)
(* (src/lua/lua_mimepart.c).  The parsed message is built by the MIME      *)
(* parser before any accessor runs; the accessors only read it.  The       *)
(* state is one text part (struct rspamd_mime_text_part), one mime part    *)
(* (struct rspamd_mime_part), the result of the last accessor call, and    *)
(* the position of a running headers_foreach walk.                         *)
(***************************************************************************)
EXTENDS Integers, Sequences, FiniteSets, TLC

VARIABLES
    text,    \* the struct rspamd_mime_text_part the textpart userdata points to
    part,    \* the struct rspamd_mime_part the mimepart userdata points to
    ret,     \* what the last accessor call left for its Lua caller
    walk     \* the frame of lua_mimepart_headers_foreach, when one is running

vars == <<text, part, ret, walk>>

(***************************************************************************)
(* Bounds of the model.                                                    *)
(***************************************************************************)
MaxBuf == 2          \* distinct byte buffers a view may point into
MaxCount == 2        \* largest value of a statistics counter
MaxExceptions == 3   \* longest exceptions list
MaxExLen == 2        \* longest byte length of one exception
MaxHeaders == 3      \* longest headers_order list
MaxChildren == 2     \* longest children array of a multipart part
MaxWords == 2        \* longest normalized_words array
MaxWordLen == 2      \* bytes of the buffer the words point into
MaxLangs == 2        \* longest languages array

(***************************************************************************)
(* Lua values an accessor can leave on the stack.                          *)
(***************************************************************************)
NULL == [null |-> TRUE]

LNone == [t |-> "none"]                       \* no argument at that index
LNil == [t |-> "nil"]
LBool(b) == [t |-> "boolean", b |-> b]
LNumber(n) == [t |-> "number", n |-> n]
LString(s) == [t |-> "string", s |-> s]
LText(start, len) == [t |-> "text", start |-> start, len |-> len]
LUdata(class, ptr) == [t |-> "userdata", class |-> class, ptr |-> ptr]
LTable(tbl) == [t |-> "table", tbl |-> tbl]
LError(msg) == [t |-> "error", msg |-> msg]

\* lua_settable on a table modelled as a function from keys to values
SetTable(tbl, k, v) == (k :> v) @@ tbl
EmptyTable == <<>>

NoCall == [op |-> "none", args |-> <<>>, val |-> LNone]
Call(op, args, val) == [op |-> op, args |-> args, val |-> val]

NoWalk == [pc |-> "idle"]

(***************************************************************************)
(* Text parts.                                                             *)
(***************************************************************************)
ByteArrays == {[data |-> b, len |-> b] : b \in 1..MaxBuf}
Spans == {[begin |-> b, len |-> b] : b \in 1..MaxBuf}

IS_PART_EMPTY(p) == "EMPTY" \in p.flags
IS_PART_UTF(p) == "UTF" \in p.flags

DefaultText ==
    [flags |-> {}, content |-> [data |-> 1, len |-> 1],
     stripped_content |-> [data |-> 1, len |-> 1],
     utf_raw_content |-> [data |-> 1, len |-> 1],
     raw |-> [begin |-> 1, len |-> 1], parsed |-> [begin |-> 1, len |-> 1],
     nlines |-> 0, empty_lines |-> 0, spaces |-> 0, non_spaces |-> 0,
     double_spaces |-> 0, ascii_chars |-> 0, non_ascii_chars |-> 0,
     capital_letters |-> 0, numeric_characters |-> 0,
     exceptions |-> <<>>, normalized_words |-> NULL, languages |-> NULL,
     language |-> NULL, html |-> NULL, mime_part |-> NULL]

\* The content arguments of text_part:get_content: absent, a string, or a
\* value that is not a string.
ContentTypes == {"content", "content_oneline", "raw", "raw_parsed", "raw_utf"}
ContentArgs ==
    {LNone, LNil, LNumber(1)} \cup {LString(s) : s \in ContentTypes \cup {"bogus"}}

\* get_content as it would be if `content' and `raw_utf' shared one view
lua_textpart_get_content_aliased(p, arg) ==
    IF IS_PART_EMPTY(p) THEN LNil
    ELSE LET type == IF arg.t = "string" THEN arg.s ELSE "" IN
         IF arg.t # "string"
         THEN LText(p.utf_raw_content.data, p.utf_raw_content.len)
         ELSE IF type = "content"
              THEN LText(p.utf_raw_content.data, p.utf_raw_content.len)
         ELSE IF type = "content_oneline"
              THEN LText(p.stripped_content.data, p.stripped_content.len)
         ELSE IF type = "raw_parsed" THEN LText(p.parsed.begin, p.parsed.len)
         ELSE IF type = "raw_utf"
              THEN LText(p.utf_raw_content.data, p.utf_raw_content.len)
         ELSE IF type = "raw" THEN LText(p.raw.begin, p.raw.len)
         ELSE LError("invalid content type")

\* get_content as it would be if an unknown type fell back to the default
lua_textpart_get_content_fallback(p, arg) ==
    IF IS_PART_EMPTY(p) THEN LNil
    ELSE LET type == IF arg.t = "string" THEN arg.s ELSE "" IN
         IF arg.t # "string" THEN LText(p.content.data, p.content.len)
         ELSE IF type = "content_oneline"
              THEN LText(p.stripped_content.data, p.stripped_content.len)
         ELSE IF type = "raw_parsed" THEN LText(p.parsed.begin, p.parsed.len)
         ELSE IF type = "raw_utf"
              THEN LText(p.utf_raw_content.data, p.utf_raw_content.len)
         ELSE IF type = "raw" THEN LText(p.raw.begin, p.raw.len)
         ELSE LText(p.content.data, p.content.len)

lua_textpart_get_content(p, arg) ==
    IF IS_PART_EMPTY(p) THEN LNil
    ELSE LET type == IF arg.t = "string" THEN arg.s ELSE "" IN
         IF arg.t # "string" THEN LText(p.content.data, p.content.len)
         ELSE IF type = "content" THEN LText(p.content.data, p.content.len)
         ELSE IF type = "content_oneline"
              THEN LText(p.stripped_content.data, p.stripped_content.len)
         ELSE IF type = "raw_parsed" THEN LText(p.parsed.begin, p.parsed.len)
         ELSE IF type = "raw_utf"
              THEN LText(p.utf_raw_content.data, p.utf_raw_content.len)
         ELSE IF type = "raw" THEN LText(p.raw.begin, p.raw.len)
         ELSE LError("invalid content type")

lua_textpart_get_raw_content(p) ==
    IF IS_PART_EMPTY(p) THEN LNil ELSE LText(p.raw.begin, p.raw.len)

lua_textpart_get_content_oneline(p) ==
    IF IS_PART_EMPTY(p) THEN LNil
    ELSE LText(p.stripped_content.data, p.stripped_content.len)

lua_textpart_get_lines_count(p) ==
    IF IS_PART_EMPTY(p) THEN LNumber(0) ELSE LNumber(p.nlines)

lua_textpart_get_stats(p) ==
    LTable([lines |-> p.nlines, empty_lines |-> p.empty_lines,
            spaces |-> p.spaces, non_spaces |-> p.non_spaces,
            double_spaces |-> p.double_spaces,
            ascii_characters |-> p.ascii_chars,
            non_ascii_characters |-> p.non_ascii_chars,
            capital_letters |-> p.capital_letters,
            numeric_characters |-> p.numeric_characters])

\* The running total is a guint; the exceptions of a part are byte ranges of
\* one message, whose lengths stay far below the width of a guint, so the
\* additions below never wrap.
\* get_urls_length as it would be if every exception were counted
RECURSIVE urls_length_all(_, _, _)
urls_length_all(exs, cur, total) ==
    IF cur > Len(exs) THEN total
    ELSE urls_length_all(exs, cur + 1, total + exs[cur].len)

lua_textpart_get_urls_length_all(p) == LNumber(urls_length_all(p.exceptions, 1, 0))

\* the for loop of lua_textpart_get_urls_length, cur walking the GList
RECURSIVE urls_length_loop(_, _, _)
urls_length_loop(exs, cur, total) ==
    IF cur > Len(exs) THEN total
    ELSE urls_length_loop(exs, cur + 1,
            IF exs[cur].type = "URL" THEN total + exs[cur].len
            ELSE total)

lua_textpart_get_urls_length(p) == LNumber(urls_length_loop(p.exceptions, 1, 0))

\* is_utf as it would be without the test of the empty flag
lua_textpart_is_utf_noempty(p) == LBool(IS_PART_UTF(p))

lua_textpart_is_utf(p) ==
    IF IS_PART_EMPTY(p) THEN LBool(FALSE) ELSE LBool(IS_PART_UTF(p))

\* The bytes of the text the words of a part point into; a word
\* (rspamd_stat_token_t) is the len bytes from its begin on
TextBuffer == [i \in 1..MaxWordLen |-> i]
Tokens == {t \in [begin : 1..MaxWordLen, len : 0..MaxWordLen] :
              t.begin + t.len - 1 <= MaxWordLen}

\* lua_pushlstring: a Lua string made of the len bytes at begin
lua_pushlstring(begin, len) == LString(SubSeq(TextBuffer, begin, begin + len - 1))

\* get_words as it would be without the test of the empty flag
lua_textpart_get_words_noempty(p) ==
    IF p.normalized_words = NULL THEN LTable(EmptyTable)
    ELSE LET words == p.normalized_words.pdata
         IN LTable([i \in 1..Len(words) |->
                        lua_pushlstring(words[i].begin, words[i].len)])

lua_textpart_get_words(p) ==
    IF IS_PART_EMPTY(p) \/ p.normalized_words = NULL THEN LTable(EmptyTable)
    ELSE LET words == p.normalized_words.pdata
         IN LTable([i \in 1..Len(words) |->
                        lua_pushlstring(words[i].begin, words[i].len)])

lua_textpart_get_words_count(p) ==
    IF IS_PART_EMPTY(p) \/ p.normalized_words = NULL THEN LNumber(0)
    ELSE LNumber(Len(p.normalized_words.pdata))

\* get_languages as it would be if a missing list were reported as nil
lua_textpart_get_languages_nil(p) ==
    IF p.languages # NULL
    THEN LET langs == p.languages.pdata
         IN LTable([i \in 1..Len(langs) |->
                LTable([code |-> LString(langs[i].lang),
                        prob |-> LNumber(langs[i].prob)])])
    ELSE LNil

lua_textpart_get_languages(p) ==
    IF p.languages # NULL
    THEN LET langs == p.languages.pdata
         IN LTable([i \in 1..Len(langs) |->
                LTable([code |-> LString(langs[i].lang),
                        prob |-> LNumber(langs[i].prob)])])
    ELSE LTable(EmptyTable)

\* A C string, as opposed to a NULL pointer
CString(s) == [str |-> s]

lua_textpart_get_language(p) ==
    IF p.language # NULL /\ p.language.str # "" THEN LString(p.language.str)
    ELSE LNil

lua_textpart_get_length(p) ==
    IF IS_PART_EMPTY(p) \/ p.content = NULL THEN LNumber(0)
    ELSE LNumber(p.content.len)

lua_textpart_get_html(p) ==
    IF p.html = NULL THEN LNil ELSE LUdata("rspamd{html}", p.html)

lua_textpart_get_mimepart(p) ==
    IF p.mime_part # NULL THEN LUdata("rspamd{mimepart}", p.mime_part) ELSE LNil

\* Text parts as the parser leaves them: a part that is not empty has all
\* five views; an empty part may have been left without its byte arrays.
ContentParts ==
    { [DefaultText EXCEPT !.flags = f, !.content = c, !.stripped_content = s,
                          !.utf_raw_content = u, !.raw = r, !.parsed = q,
                          !.nlines = n] :
        f \in SUBSET {"EMPTY", "UTF"}, c \in ByteArrays, s \in ByteArrays,
        u \in ByteArrays, r \in Spans, q \in Spans, n \in 0..MaxCount }
    \cup
    { [DefaultText EXCEPT !.flags = f \cup {"EMPTY"}, !.content = NULL,
                          !.stripped_content = NULL, !.utf_raw_content = NULL,
                          !.raw = r, !.parsed = q, !.nlines = n] :
        f \in SUBSET {"UTF"}, r \in Spans, q \in Spans, n \in 0..MaxCount }

ExceptionTypes == {"URL", "GENERIC"}
Exceptions == [type : ExceptionTypes, len : 1..MaxExLen]
ExceptionLists == UNION {[1..n -> Exceptions] : n \in 0..MaxExceptions}

ExceptionParts ==
    { [DefaultText EXCEPT !.flags = f, !.exceptions = e] :
        f \in SUBSET {"EMPTY"}, e \in ExceptionLists }

\* GPtrArray and GArray objects, as opposed to a NULL pointer
PtrArray(items) == [pdata |-> items]

WordArrays ==
    {NULL} \cup {PtrArray(w) : w \in UNION {[1..n -> Tokens] : n \in 0..MaxWords}}

\* Results of the language detector: a code and the logarithm of its
\* probability, kept here as a whole number
LangResults == [lang : {"en", "ru"}, prob : {-1, -2}]
LangArrays ==
    {NULL} \cup {PtrArray(l) : l \in UNION {[1..n -> LangResults] : n \in 0..MaxLangs}}

\* Parts that differ in their words, and parts that differ in their languages
AnalysisParts ==
    { [DefaultText EXCEPT !.flags = f, !.normalized_words = w] :
        f \in SUBSET {"EMPTY"}, w \in WordArrays }
    \cup
    { [DefaultText EXCEPT !.flags = f, !.languages = l, !.language = g] :
        f \in SUBSET {"EMPTY"}, l \in LangArrays,
        g \in {NULL, CString(""), CString("en")} }

DefaultPart == [ct |-> NULL, flags |-> {}, specific |-> NULL,
                headers_order |-> NULL, raw_headers |-> NULL,
                parsed_data |-> [begin |-> 1, len |-> 0],
                raw_data |-> [begin |-> 1, len |-> 0],
                cte |-> "RSPAMD_CTE_UNKNOWN", cd |-> NULL, digest |-> <<0, 0>>]

(***************************************************************************)
(* Mime parts.                                                             *)
(***************************************************************************)
\* What dereferencing a NULL pointer does to the calling process
LCrash == [t |-> "crash"]
LMulti(vals) == [t |-> "multi", vals |-> vals]

ChildIds == 1..MaxChildren
ChildArrays == UNION {[1..n -> ChildIds] : n \in 0..MaxChildren}

\* The objects the union `specific' can point to.  The members of the union
\* share their storage, so reading any member yields the one stored pointer.
TextDetail == [kind |-> "txt", id |-> 1]
ImageDetail == [kind |-> "img", id |-> 1]
ArchiveDetail == [kind |-> "arch", id |-> 1]
Children(parts) == [kind |-> "children", parts |-> parts]

specific_txt(p) == p.specific
specific_img(p) == p.specific
specific_arch(p) == p.specific
specific_mp_children(p) == p.specific

IS_CT_MULTIPART(ct) == ct # NULL /\ "MULTIPART" \in ct.flags

\* Content type parameters kept in ct->attrs, by name
AttrNames == {"", "name"}
AttrParams == [name : AttrNames, value : {"v"}]
HashTable(params) == [params |-> params]
AttrTables ==
    {NULL} \cup {HashTable(a) : a \in {b \in SUBSET AttrParams :
                    \A x \in b, y \in b : x.name = y.name => x = y}}

ContentTypes_ct ==
    { [type |-> ty[1], subtype |-> ty[2], charset |-> cs, boundary |-> bd,
       flags |-> fl, attrs |-> at] :
        ty \in {<<"text", "plain">>, <<"multipart", "mixed">>, <<"", "">>},
        cs \in {"", "utf-8"}, bd \in {"", "b1"},
        fl \in SUBSET {"BROKEN", "MULTIPART"}, at \in AttrTables }

\* The parser flags a content type multipart only when its type says so
ContentTypeRecords ==
    {ct \in ContentTypes_ct : "MULTIPART" \in ct.flags => ct.type = "multipart"}

\* is_broken as it would be without the test of part->ct
lua_mimepart_is_broken_noct(p) ==
    IF p.ct = NULL THEN LBool(FALSE) ELSE LBool("BROKEN" \in p.ct.flags)

lua_mimepart_is_broken(p) ==
    IF p.ct # NULL THEN LBool("BROKEN" \in p.ct.flags) ELSE LBool(TRUE)

\* the while loop over ct->attrs; the keys of a hash table are distinct, so
\* the order of the iteration does not show in the table
type_attrs_loop(tbl, attrs) ==
    LET named == {a \in attrs.params : Len(a.name) > 0 /\ Len(a.name) > 0}
        keys == {a.name : a \in named}
    IN [k \in DOMAIN tbl \cup keys |->
            IF k \in keys THEN (CHOOSE a \in named : a.name = k).value
            ELSE tbl[k]]

lua_mimepart_get_type_common(p, full) ==
    IF p.ct = NULL THEN LCrash
    ELSE IF ~full THEN LMulti(<<LString(p.ct.type), LString(p.ct.subtype)>>)
    ELSE LET t0 == EmptyTable
             t1 == IF Len(p.ct.charset) > 0
                   THEN SetTable(t0, "charset", p.ct.charset) ELSE t0
             t2 == IF Len(p.ct.boundary) > 0
                   THEN SetTable(t1, "charset", p.ct.boundary) ELSE t1
             t3 == IF p.ct.attrs # NULL THEN type_attrs_loop(t2, p.ct.attrs)
                   ELSE t2
         IN LMulti(<<LString(p.ct.type), LString(p.ct.subtype), LTable(t3)>>)

lua_mimepart_get_type(p) == lua_mimepart_get_type_common(p, FALSE)
lua_mimepart_get_type_full(p) == lua_mimepart_get_type_common(p, TRUE)

\* get_image as it would be without the test of the part's flags
lua_mimepart_get_image_noflag(p) ==
    IF specific_img(p) = NULL THEN LNil
    ELSE LUdata("rspamd{image}", specific_img(p))

lua_mimepart_get_image(p) ==
    IF "IMAGE" \notin p.flags \/ specific_img(p) = NULL THEN LNil
    ELSE LUdata("rspamd{image}", specific_img(p))

lua_mimepart_get_archive(p) ==
    IF "ARCHIVE" \notin p.flags \/ specific_arch(p) = NULL THEN LNil
    ELSE LUdata("rspamd{archive}", specific_arch(p))

lua_mimepart_get_text(p) ==
    IF "TEXT" \notin p.flags \/ specific_txt(p) = NULL THEN LNil
    ELSE LUdata("rspamd{textpart}", specific_txt(p))

lua_mimepart_get_children(p) ==
    IF ~IS_CT_MULTIPART(p.ct) \/ specific_mp_children(p) = NULL THEN LNil
    ELSE LET children == specific_mp_children(p).parts
         IN LTable([i \in 1..Len(children) |->
                        LUdata("rspamd{mimepart}", children[i])])

\* The name of a transfer encoding
rspamd_cte_to_string(cte) ==
    CASE cte = "RSPAMD_CTE_7BIT" -> "7bit"
      [] cte = "RSPAMD_CTE_8BIT" -> "8bit"
      [] cte = "RSPAMD_CTE_QP" -> "quoted-printable"
      [] cte = "RSPAMD_CTE_B64" -> "base64"
      [] OTHER -> "unknown"

lua_mimepart_get_cte(p) == LString(rspamd_cte_to_string(p.cte))

lua_mimepart_get_filename(p) ==
    IF p.cd = NULL \/ p.cd.filename.len = 0 THEN LNil
    ELSE lua_pushlstring(p.cd.filename.begin, p.cd.filename.len)

\* Two lower-case hexadecimal digits for every byte
rspamd_encode_hex_buf(in) ==
    LET HexDigits == <<"0", "1", "2", "3", "4", "5", "6", "7",
                       "8", "9", "a", "b", "c", "d", "e", "f">>
    IN [i \in 1..(2 * Len(in)) |->
           IF i % 2 = 1 THEN HexDigits[(in[(i + 1) \div 2] \div 16) + 1]
           ELSE HexDigits[(in[i \div 2] % 16) + 1]]

lua_mimepart_get_digest(p) == LString(rspamd_encode_hex_buf(p.digest))

\* What the parser stores in flags and in the union for one part: a
\* multipart container has no kind flag and holds its children array (or
\* nothing); any other part has at most one kind flag, and the union holds
\* the detail of that kind or nothing.
KindPayloads(ct) ==
    IF IS_CT_MULTIPART(ct)
    THEN {<<{}, NULL>>} \cup {<<{}, Children(c)>> : c \in ChildArrays}
    ELSE {<<{}, NULL>>,
          <<{"TEXT"}, TextDetail>>, <<{"TEXT"}, NULL>>,
          <<{"IMAGE"}, ImageDetail>>, <<{"IMAGE"}, NULL>>,
          <<{"ARCHIVE"}, ArchiveDetail>>, <<{"ARCHIVE"}, NULL>>}

MimeParts ==
    UNION { { [DefaultPart EXCEPT !.ct = ct, !.flags = k[1], !.specific = k[2]] :
                k \in KindPayloads(ct) } :
            ct \in ContentTypeRecords \cup {NULL} }

GetContent(arg) ==
    /\ ret' = Call("get_content", <<arg>>, lua_textpart_get_content(text, arg))
    /\ UNCHANGED <<text, part, walk>>

GetRawContent ==
    /\ ret' = Call("get_raw_content", <<>>, lua_textpart_get_raw_content(text))
    /\ UNCHANGED <<text, part, walk>>

GetContentOneline ==
    /\ ret' = Call("get_content_oneline", <<>>,
                   lua_textpart_get_content_oneline(text))
    /\ UNCHANGED <<text, part, walk>>

GetLinesCount ==
    /\ ret' = Call("get_lines_count", <<>>, lua_textpart_get_lines_count(text))
    /\ UNCHANGED <<text, part, walk>>

GetStats ==
    /\ ret' = Call("get_stats", <<>>, lua_textpart_get_stats(text))
    /\ UNCHANGED <<text, part, walk>>

IsUtf ==
    /\ ret' = Call("is_utf", <<>>, lua_textpart_is_utf(text))
    /\ UNCHANGED <<text, part, walk>>

InitText ==
    /\ text \in ContentParts
    /\ part = DefaultPart
    /\ ret = NoCall
    /\ walk = NoWalk

NextText ==
    \/ \E arg \in ContentArgs : GetContent(arg)
    \/ GetRawContent
    \/ GetContentOneline
    \/ GetLinesCount
    \/ GetStats
    \/ IsUtf

SpecText == InitText /\ [][NextText]_vars

GetUrlsLength ==
    /\ ret' = Call("get_urls_length", <<>>, lua_textpart_get_urls_length(text))
    /\ UNCHANGED <<text, part, walk>>

InitUrls ==
    /\ text \in ExceptionParts
    /\ part = DefaultPart
    /\ ret = NoCall
    /\ walk = NoWalk

NextUrls == GetUrlsLength

SpecUrls == InitUrls /\ [][NextUrls]_vars

GetWords ==
    /\ ret' = Call("get_words", <<>>, lua_textpart_get_words(text))
    /\ UNCHANGED <<text, part, walk>>

GetWordsCount ==
    /\ ret' = Call("get_words_count", <<>>, lua_textpart_get_words_count(text))
    /\ UNCHANGED <<text, part, walk>>

GetLanguages ==
    /\ ret' = Call("get_languages", <<>>, lua_textpart_get_languages(text))
    /\ UNCHANGED <<text, part, walk>>

GetLanguage ==
    /\ ret' = Call("get_language", <<>>, lua_textpart_get_language(text))
    /\ UNCHANGED <<text, part, walk>>

InitAnalysis ==
    /\ text \in AnalysisParts
    /\ part = DefaultPart
    /\ ret = NoCall
    /\ walk = NoWalk

NextAnalysis ==
    \/ GetWords
    \/ GetWordsCount
    \/ GetLanguages
    \/ GetLanguage

SpecAnalysis == InitAnalysis /\ [][NextAnalysis]_vars

IsBroken ==
    /\ ret' = Call("is_broken", <<>>, lua_mimepart_is_broken(part))
    /\ UNCHANGED <<text, part, walk>>

GetType ==
    /\ ret' = Call("get_type", <<>>, lua_mimepart_get_type(part))
    /\ UNCHANGED <<text, part, walk>>

GetTypeFull ==
    /\ ret' = Call("get_type_full", <<>>, lua_mimepart_get_type_full(part))
    /\ UNCHANGED <<text, part, walk>>

GetImage ==
    /\ ret' = Call("get_image", <<>>, lua_mimepart_get_image(part))
    /\ UNCHANGED <<text, part, walk>>

GetArchive ==
    /\ ret' = Call("get_archive", <<>>, lua_mimepart_get_archive(part))
    /\ UNCHANGED <<text, part, walk>>

GetText ==
    /\ ret' = Call("get_text", <<>>, lua_mimepart_get_text(part))
    /\ UNCHANGED <<text, part, walk>>

GetChildren ==
    /\ ret' = Call("get_children", <<>>, lua_mimepart_get_children(part))
    /\ UNCHANGED <<text, part, walk>>

Init ==
    /\ text = DefaultText
    /\ part \in MimeParts
    /\ ret = NoCall
    /\ walk = NoWalk

Next ==
    \/ IsBroken
    \/ GetType
    \/ GetTypeFull
    \/ GetImage
    \/ GetArchive
    \/ GetText
    \/ GetChildren

Spec == Init /\ [][Next]_vars

(***************************************************************************)
(* Headers of a mime part.                                                 *)
(***************************************************************************)
HeaderNames == {"X-A", "x-a", "X-B"}
LookupNames == HeaderNames \cup {"x-b", "X-C"}

\* Case folding of a header name
Lower(name) ==
    CASE name \in {"X-A", "x-a"} -> "x-a"
      [] name \in {"X-B", "x-b"} -> "x-b"
      [] name = "X-C" -> "x-c"

HeaderValues == {[value |-> "=?1?=", decoded |-> "1"],
                 [value |-> "=?2?=", decoded |-> "2"]}

Header(name, v) ==
    [name |-> name, value |-> v.value, decoded |-> v.decoded,
     tab_separated |-> FALSE, empty_separator |-> FALSE]

Headers == {Header(n, v) : n \in HeaderNames, v \in HeaderValues}

\* A GQueue object, as opposed to a NULL pointer
Queue(items) == [items |-> items]

HeaderQueues ==
    {NULL} \cup {Queue(q) : q \in UNION {[1..n -> Headers] : n \in 0..MaxHeaders}}

\* The hash the parser fills next to headers_order: for every case-folded
\* name the records of that name, in the order they were added
HeadersHash(order) ==
    IF order = NULL THEN NULL
    ELSE [k \in {Lower(order.items[i].name) : i \in 1..Len(order.items)} |->
            PtrArray(SelectSeq(order.items, LAMBDA h : Lower(h.name) = k))]

rspamd_message_get_header_from_hash(htb, field, strict) ==
    IF htb = NULL \/ Lower(field) \notin DOMAIN htb THEN NULL
    ELSE LET ar == htb[Lower(field)] IN
         IF strict
         THEN PtrArray(SelectSeq(ar.pdata, LAMBDA h : h.name = field))
         ELSE ar

rspamd_lua_push_header(hdr, full, raw) ==
    IF full
    THEN LTable([name |-> hdr.name, value |-> hdr.value,
                 decoded |-> hdr.decoded,
                 tab_separated |-> hdr.tab_separated,
                 empty_separator |-> hdr.empty_separator])
    ELSE IF raw THEN LString(hdr.value)
    ELSE LString(hdr.decoded)

rspamd_lua_push_header_array(ar, full, raw) ==
    IF ar = NULL \/ Len(ar.pdata) = 0 THEN LNil
    ELSE LTable([i \in 1..Len(ar.pdata) |->
                    rspamd_lua_push_header(ar.pdata[i], full, raw)])

\* The third argument of get_header, case_sensitive, is never read
lua_mimepart_get_header_common(p, name, full, raw) ==
    rspamd_lua_push_header_array(
        rspamd_message_get_header_from_hash(p.raw_headers, name, FALSE),
        full, raw)

lua_mimepart_get_header_full(p, name) ==
    lua_mimepart_get_header_common(p, name, TRUE, TRUE)
lua_mimepart_get_header(p, name) ==
    lua_mimepart_get_header_common(p, name, FALSE, FALSE)
lua_mimepart_get_header_raw(p, name) ==
    lua_mimepart_get_header_common(p, name, FALSE, TRUE)

HeaderParts ==
    { [DefaultPart EXCEPT !.headers_order = q, !.raw_headers = HeadersHash(q)] :
        q \in HeaderQueues }

CaseArgs == {LNone, LBool(TRUE), LBool(FALSE)}

GetHeader(name, cs) ==
    /\ ret' = Call("get_header", <<LString(name), cs>>,
                   lua_mimepart_get_header(part, name))
    /\ UNCHANGED <<text, part, walk>>

GetHeaderRaw(name, cs) ==
    /\ ret' = Call("get_header_raw", <<LString(name), cs>>,
                   lua_mimepart_get_header_raw(part, name))
    /\ UNCHANGED <<text, part, walk>>

GetHeaderFull(name, cs) ==
    /\ ret' = Call("get_header_full", <<LString(name), cs>>,
                   lua_mimepart_get_header_full(part, name))
    /\ UNCHANGED <<text, part, walk>>

InitLookup ==
    /\ text = DefaultText
    /\ part \in HeaderParts
    /\ ret = NoCall
    /\ walk = NoWalk

NextLookup ==
    \/ \E name \in LookupNames, cs \in CaseArgs : GetHeader(name, cs)
    \/ \E name \in LookupNames, cs \in CaseArgs : GetHeaderRaw(name, cs)
    \/ \E name \in LookupNames, cs \in CaseArgs : GetHeaderFull(name, cs)

SpecLookup == InitLookup /\ [][NextLookup]_vars

(***************************************************************************)
(* headers_foreach: the walk over headers_order, one callback at a time.   *)
(***************************************************************************)
\* A compiled regexp is known by the header names it matches; a regexp
\* object may also hold no compiled expression.
Regexps == {[re |-> NULL],
            [re |-> [matches |-> {"X-A"}]],
            [re |-> [matches |-> {"X-A", "x-a"}]]}

rspamd_regexp_match(re, name) == name \in re.matches

\* The params table: absent, or a table with the fields full, raw, regexp
ForeachParams ==
    {LNone} \cup
    {LTable([full |-> f, raw |-> r, regexp |-> x]) :
        f \in {LNil, LBool(TRUE), LBool(FALSE)},
        r \in {LNil, LBool(TRUE)},
        x \in {LNil} \cup {LUdata("rspamd{regexp}", g) : g \in Regexps}}

\* What one protected call of the callback leaves: the values it returned,
\* or the error it raised
CallbackResults ==
    {[ok |-> TRUE, vals |-> v] :
        v \in {<<>>, <<LNil>>, <<LBool(FALSE)>>, <<LBool(TRUE)>>,
               <<LNumber(1)>>, <<LBool(FALSE), LBool(TRUE)>>}}
    \cup {[ok |-> FALSE, vals |-> <<LString("error")>>]}

\* lines 1298-1326: the options read from the params table
foreach_full(params) ==
    IF params.t = "table" /\ params.tbl.full.t = "boolean"
    THEN params.tbl.full.b ELSE FALSE

foreach_raw(params) ==
    IF params.t = "table" /\ params.tbl.raw.t = "boolean"
    THEN params.tbl.raw.b ELSE FALSE

foreach_re(params) ==
    IF params.t = "table" /\ params.tbl.regexp.t = "userdata"
    THEN params.tbl.regexp.ptr ELSE NULL

\* the filter of lines 1334-1340: TRUE when the header is passed over
foreach_skips(re, hdr) ==
    re # NULL /\ re.re # NULL /\ ~rspamd_regexp_match(re.re, hdr.name)

\* the walk as it would be if a returned true did not end it
foreach_stops_never(res) == FALSE

\* lines 1354-1361: the first returned value is the boolean true
foreach_stops(res) ==
    Len(res.vals) > 0 /\ res.vals[1].t = "boolean" /\ res.vals[1].b

\* the walk as it would be if the link to follow were the current one
g_list_next_stuck(cur, n) == cur

\* g_list_next on the list of a queue of n items; 0 is the NULL link
g_list_next(cur, n) == IF cur < n THEN cur + 1 ELSE 0

\* Height of the Lua stack, whose slots 1..top are in use
lua_settop(top, idx) == idx

\* lua_pcall with 2 arguments: the function and its arguments are replaced
\* by the values returned, or by the error message
lua_pcall_top(top, res) == (top - 3) + Len(res.vals)

\* the iteration as it would be if the stack were left as the call left it
foreach_call_top_leak(old_top, res) == lua_pcall_top(old_top + 3, res)

\* lines 1342-1364: the stack height after one call of the callback; the
\* three branches all end in lua_settop (L, old_top)
foreach_call_top(old_top, res) ==
    lua_settop(lua_pcall_top(old_top + 3, res), old_top)
queue_head(q) == IF Len(q.items) > 0 THEN 1 ELSE 0

\* Entry of lua_mimepart_headers_foreach up to the first test of the loop
HeadersForeach(cb, params) ==
    /\ walk.pc \in {"idle", "done"}
    /\ IF cb.t = "function" /\ part.headers_order # NULL
       THEN /\ walk' = [pc |-> "loop", full |-> foreach_full(params),
                        raw |-> foreach_raw(params), re |-> foreach_re(params),
                        cur |-> queue_head(part.headers_order),
                        top |-> IF params = LNone THEN 2 ELSE 3,
                        calls |-> <<>>, last |-> LNone, pushed |-> LNone,
                        args |-> <<cb, params>>]
            /\ ret' = Call("headers_foreach", <<cb, params>>, LNone)
       ELSE /\ walk' = [pc |-> "done", calls |-> <<>>, last |-> LNone,
                        args |-> <<cb, params>>]
            /\ ret' = Call("headers_foreach", <<cb, params>>, LMulti(<<>>))
    /\ UNCHANGED <<text, part>>

CurrentHeader == part.headers_order.items[walk.cur]
NextLink == g_list_next(walk.cur, Len(part.headers_order.items))

\* the iteration as it would be if a header that does not match ended the walk
ForeachSkip_break ==
    /\ walk.pc = "loop" /\ walk.cur # 0
    /\ foreach_skips(walk.re, CurrentHeader)
    /\ walk' = [walk EXCEPT !.pc = "break"]
    /\ UNCHANGED <<text, part, ret>>

\* One iteration that passes over a header the regexp does not match
ForeachSkip ==
    /\ walk.pc = "loop" /\ walk.cur # 0
    /\ foreach_skips(walk.re, CurrentHeader)
    /\ walk' = [walk EXCEPT !.cur = NextLink]
    /\ UNCHANGED <<text, part, ret>>

\* the iteration as it would be if the callback were called before the link
\* is tested, as in a do-while loop
ForeachInvoke_dowhile(res) ==
    /\ walk.pc = "loop"
    /\ walk' = [walk EXCEPT !.calls = Append(@, walk.cur), !.last = res,
                            !.pc = "break"]
    /\ UNCHANGED <<text, part, ret>>

\* One iteration that calls the callback, which returns res
ForeachInvoke(res) ==
    /\ walk.pc = "loop" /\ walk.cur # 0
    /\ ~foreach_skips(walk.re, CurrentHeader)
    /\ LET old_top == walk.top
           called == [walk EXCEPT
                        !.calls = Append(@, walk.cur), !.last = res,
                        !.pushed = <<LString(CurrentHeader.name),
                                     rspamd_lua_push_header(CurrentHeader,
                                                    walk.full, walk.raw)>>,
                        !.top = foreach_call_top(old_top, res)]
       IN IF ~res.ok \/ foreach_stops(res)
          THEN walk' = [called EXCEPT !.pc = "break"]
          ELSE walk' = [called EXCEPT !.cur = NextLink]
    /\ UNCHANGED <<text, part, ret>>

\* the return as it would be if the walk had unlinked the headers it visited
ForeachReturn_unlink ==
    /\ \/ walk.pc = "loop" /\ walk.cur = 0
       \/ walk.pc = "break"
    /\ walk' = [pc |-> "done", calls |-> walk.calls, last |-> walk.last,
                args |-> walk.args]
    /\ ret' = Call("headers_foreach", walk.args, LMulti(<<>>))
    /\ part' = [part EXCEPT !.headers_order = Queue(<<>>)]
    /\ UNCHANGED text

\* The loop is left, at the end of the list or by a break, and 0 values
\* are returned
ForeachReturn ==
    /\ \/ walk.pc = "loop" /\ walk.cur = 0
       \/ walk.pc = "break"
    /\ walk' = [pc |-> "done", calls |-> walk.calls, last |-> walk.last,
                args |-> walk.args]
    /\ ret' = Call("headers_foreach", walk.args, LMulti(<<>>))
    /\ UNCHANGED <<text, part>>

\* Walks use header records that differ in their name only
WalkQueues ==
    {NULL} \cup
    {Queue(q) : q \in UNION {[1..n -> {Header(nm, [value |-> "=?1?=",
                                                   decoded |-> "1"]) :
                                          nm \in HeaderNames}] :
                             n \in 0..MaxHeaders}}

WalkParts ==
    { [DefaultPart EXCEPT !.headers_order = q, !.raw_headers = HeadersHash(q)] :
        q \in WalkQueues }

CallbackArgs == {[t |-> "function"], LNil}

InitWalk ==
    /\ text = DefaultText
    /\ part \in WalkParts
    /\ ret = NoCall
    /\ walk = NoWalk

NextWalk ==
    \/ \E cb \in CallbackArgs, params \in ForeachParams :
          HeadersForeach(cb, params)
    \/ ForeachSkip
    \/ \E res \in CallbackResults : ForeachInvoke(res)
    \/ ForeachReturn

SpecWalk == InitWalk /\ [][NextWalk]_vars

\* headers_foreach is C code that runs until it returns, and a callback that
\* is called comes back, with values or with an error: no step of a walk
\* that has started is put off for ever.
SpecWalkFair ==
    /\ SpecWalk
    /\ WF_vars(ForeachSkip)
    /\ WF_vars(\E res \in CallbackResults : ForeachInvoke(res))
    /\ WF_vars(ForeachReturn)

HasEightBitRaw ==
    /\ ret' = Call("has_8bit_raw", <<>>,
                   LBool("8BIT" \in text.flags))
    /\ UNCHANGED <<text, part, walk>>

HasEightBit ==
    /\ ret' = Call("has_8bit", <<>>,
                   LBool("8BIT_ENCODED" \in text.flags))
    /\ UNCHANGED <<text, part, walk>>

GetLength ==
    /\ ret' = Call("get_length", <<>>, lua_textpart_get_length(text))
    /\ UNCHANGED <<text, part, walk>>

GetRawLength ==
    /\ ret' = Call("get_raw_length", <<>>,
                   LNumber(text.raw.len))
    /\ UNCHANGED <<text, part, walk>>

IsEmpty ==
    /\ ret' = Call("is_empty", <<>>,
                   LBool(IS_PART_EMPTY(text)))
    /\ UNCHANGED <<text, part, walk>>

IsHtml ==
    /\ ret' = Call("is_html", <<>>,
                   LBool("HTML" \in text.flags))
    /\ UNCHANGED <<text, part, walk>>

GetHtml ==
    /\ ret' = Call("get_html", <<>>, lua_textpart_get_html(text))
    /\ UNCHANGED <<text, part, walk>>

GetMimepart ==
    /\ ret' = Call("get_mimepart", <<>>, lua_textpart_get_mimepart(text))
    /\ UNCHANGED <<text, part, walk>>

MimeGetContent ==
    /\ ret' = Call("mimepart.get_content", <<>>,
                   LText(part.parsed_data.begin, part.parsed_data.len))
    /\ UNCHANGED <<text, part, walk>>

MimeGetRawContent ==
    /\ ret' = Call("mimepart.get_raw_content", <<>>,
                   LText(part.raw_data.begin, part.raw_data.len))
    /\ UNCHANGED <<text, part, walk>>

MimeGetLength ==
    /\ ret' = Call("mimepart.get_length", <<>>,
                   LNumber(part.parsed_data.len))
    /\ UNCHANGED <<text, part, walk>>

GetCte ==
    /\ ret' = Call("get_cte", <<>>, lua_mimepart_get_cte(part))
    /\ UNCHANGED <<text, part, walk>>

GetFilename ==
    /\ ret' = Call("get_filename", <<>>, lua_mimepart_get_filename(part))
    /\ UNCHANGED <<text, part, walk>>

IsImage ==
    /\ ret' = Call("is_image", <<>>,
                   LBool("IMAGE" \in part.flags))
    /\ UNCHANGED <<text, part, walk>>

IsArchive ==
    /\ ret' = Call("is_archive", <<>>,
                   LBool("ARCHIVE" \in part.flags))
    /\ UNCHANGED <<text, part, walk>>

IsMultipart ==
    /\ ret' = Call("is_multipart", <<>>,
                   LBool(IS_CT_MULTIPART(part.ct)))
    /\ UNCHANGED <<text, part, walk>>

IsText ==
    /\ ret' = Call("is_text", <<>>,
                   LBool("TEXT" \in part.flags))
    /\ UNCHANGED <<text, part, walk>>

GetDigest ==
    /\ ret' = Call("get_digest", <<>>, lua_mimepart_get_digest(part))
    /\ UNCHANGED <<text, part, walk>>

\* The parts the readers share: a text part with every analysis result and
\* an empty one; a leaf with two headers, a container and a part with nothing
ReaderTexts ==
    { [DefaultText EXCEPT
          !.flags = {"UTF", "8BIT", "HTML"}, !.nlines = 1,
          !.exceptions = <<[type |-> "URL", len |-> 1]>>,
          !.normalized_words = PtrArray(<<[begin |-> 1, len |-> 1]>>),
          !.languages = PtrArray(<<[lang |-> "en", prob |-> -1]>>),
          !.language = CString("en"), !.html = [html |-> 1],
          !.mime_part = [mime |-> 1]],
      [DefaultText EXCEPT
          !.flags = {"EMPTY", "8BIT_ENCODED"}, !.content = NULL,
          !.stripped_content = NULL, !.utf_raw_content = NULL] }

ReaderParts ==
  LET ReaderQueue ==
        Queue(<<Header("X-A", [value |-> "=?1?=", decoded |-> "1"]),
                Header("X-B", [value |-> "=?1?=", decoded |-> "1"])>>)
  IN
    { [DefaultPart EXCEPT
          !.ct = [type |-> "text", subtype |-> "plain", charset |-> "utf-8",
                  boundary |-> "", flags |-> {}, attrs |-> NULL],
          !.flags = {"TEXT"}, !.specific = TextDetail,
          !.headers_order = ReaderQueue, !.raw_headers = HeadersHash(ReaderQueue),
          !.parsed_data = [begin |-> 1, len |-> 2],
          !.raw_data = [begin |-> 1, len |-> 2],
          !.cte = "RSPAMD_CTE_QP",
          !.cd = [filename |-> [begin |-> 1, len |-> 2]],
          !.digest = <<10, 255>>],
      [DefaultPart EXCEPT
          !.ct = [type |-> "multipart", subtype |-> "mixed", charset |-> "",
                  boundary |-> "b1", flags |-> {"MULTIPART"}, attrs |-> NULL],
          !.specific = Children(<<1>>),
          !.headers_order = Queue(<<>>), !.raw_headers = HeadersHash(Queue(<<>>))],
      DefaultPart }

ReaderParams ==
    {LNone,
     LTable([full |-> LBool(TRUE), raw |-> LNil,
             regexp |-> LUdata("rspamd{regexp}", [re |-> [matches |-> {"X-B"}]])])}

ReaderNames == {"x-a", "X-C"}

InitReaders ==
    /\ text \in ReaderTexts
    /\ part \in ReaderParts
    /\ ret = NoCall
    /\ walk = NoWalk

\* The calls of several readers, one after another in any order, also
\* between the iterations of a walk that is under way
NextReaders ==
    \/ \E arg \in ContentArgs : GetContent(arg)
    \/ GetRawContent
    \/ GetContentOneline
    \/ GetLinesCount
    \/ GetStats
    \/ IsUtf
    \/ GetUrlsLength
    \/ GetWords
    \/ GetWordsCount
    \/ GetLanguages
    \/ GetLanguage
    \/ HasEightBitRaw
    \/ HasEightBit
    \/ GetLength
    \/ GetRawLength
    \/ IsEmpty
    \/ IsHtml
    \/ GetHtml
    \/ GetMimepart
    \/ IsBroken
    \/ GetType
    \/ GetTypeFull
    \/ GetImage
    \/ GetArchive
    \/ GetText
    \/ GetChildren
    \/ MimeGetContent
    \/ MimeGetRawContent
    \/ MimeGetLength
    \/ GetCte
    \/ GetFilename
    \/ IsImage
    \/ IsArchive
    \/ IsMultipart
    \/ IsText
    \/ GetDigest
    \/ \E name \in ReaderNames : GetHeader(name, LNone)
    \/ \E name \in ReaderNames : GetHeaderRaw(name, LNone)
    \/ \E name \in ReaderNames : GetHeaderFull(name, LNone)
    \/ \E cb \in CallbackArgs, params \in ReaderParams : HeadersForeach(cb, params)
    \/ ForeachSkip
    \/ \E res \in CallbackResults : ForeachInvoke(res)
    \/ ForeachReturn

SpecReaders == InitReaders /\ [][NextReaders]_vars

(***************************************************************************)
(* Properties of the text part accessors.                                  *)
(***************************************************************************)
ContentAccessors == {"get_content", "get_raw_content", "get_content_oneline"}

\* C3: for a text part flagged empty, whatever its spans and counters are,
\* every content accessor returns nil and get_stats reports lines = 0.
C3_EmptyPartHasNoContent ==
    IS_PART_EMPTY(text) =>
        /\ ret.op \in ContentAccessors => ret.val = LNil
        /\ ret.op = "get_stats" => ret.val.tbl.lines = 0

\* The view each variant names, as the accessor's documentation lists them
VariantView(p, type) ==
    CASE type = "content" -> LText(p.content.data, p.content.len)
      [] type = "content_oneline" ->
            LText(p.stripped_content.data, p.stripped_content.len)
      [] type = "raw" -> LText(p.raw.begin, p.raw.len)
      [] type = "raw_parsed" -> LText(p.parsed.begin, p.parsed.len)
      [] type = "raw_utf" ->
            LText(p.utf_raw_content.data, p.utf_raw_content.len)

\* The same with `content' mapped to the utf8 view that `raw_utf' returns
AliasedView(p, type) ==
    IF type = "content" THEN VariantView(p, "raw_utf") ELSE VariantView(p, type)

IsGetContent == ret.op = "get_content"
ContentArg == ret.args[1]

\* C5 as stated: for a non-empty text part `content' and `raw_utf' both return
\* the utf8 view, the other variants their own view, and no variant behaves
\* as `content'.
C5_ContentAliasesRawUtf ==
    (IsGetContent /\ ~IS_PART_EMPTY(text)) =>
        /\ (ContentArg.t = "string" /\ ContentArg.s \in ContentTypes)
              => ret.val = AliasedView(text, ContentArg.s)
        /\ ContentArg.t # "string" => ret.val = AliasedView(text, "content")

\* C5 amended: for a non-empty text part each variant returns its own field:
\* content -> content, content_oneline -> stripped_content, raw -> raw,
\* raw_parsed -> parsed, raw_utf -> utf_raw_content; a call with no variant
\* (or one that is not a string) behaves as `content'.
C5_ContentVariants ==
    (IsGetContent /\ ~IS_PART_EMPTY(text)) =>
        /\ (ContentArg.t = "string" /\ ContentArg.s \in ContentTypes)
              => ret.val = VariantView(text, ContentArg.s)
        /\ ContentArg.t # "string" => ret.val = VariantView(text, "content")

\* a non-empty part whose content and utf_raw_content differ, asked for raw_utf
C5_Witness ==
    /\ IsGetContent /\ ~IS_PART_EMPTY(text)
    /\ ContentArg = LString("raw_utf")
    /\ text.content # text.utf_raw_content
    /\ ret.val = LText(text.utf_raw_content.data, text.utf_raw_content.len)

IsBadVariant ==
    IsGetContent /\ ContentArg.t = "string" /\ ContentArg.s \notin ContentTypes

\* C6 as stated: on every text part, empty or not, get_content with an
\* unknown variant name raises an error.
C6_BadVariantAlwaysError == IsBadVariant => ret.val.t = "error"

\* C6 amended: on a text part that is not flagged empty get_content with an
\* unknown variant name raises an error; on a part flagged empty it returns
\* nil whatever the variant name is; no other call of get_content raises.
C6_BadVariantError ==
    IsGetContent =>
        /\ (IsBadVariant /\ ~IS_PART_EMPTY(text)) => ret.val.t = "error"
        /\ IS_PART_EMPTY(text) => ret.val = LNil
        /\ ret.val.t = "error" => (IsBadVariant /\ ~IS_PART_EMPTY(text))

\* the error raised on a non-empty part
C6_Witness == IsBadVariant /\ ~IS_PART_EMPTY(text) /\ ret.val.t = "error"

\* Sum of the lengths at the positions of url exceptions
RECURSIVE SumAt(_, _)
SumAt(exs, idx) ==
    IF idx = {} THEN 0
    ELSE LET i == CHOOSE j \in idx : TRUE IN exs[i].len + SumAt(exs, idx \ {i})

UrlPositions(exs) == {i \in 1..Len(exs) : exs[i].type = "URL"}

\* C8: get_urls_length is the sum of the lengths of the url exceptions, the
\* other exceptions adding nothing, and 0 when there is no url exception.
C8_UrlsLength ==
    ret.op = "get_urls_length" =>
        /\ ret.val = LNumber(SumAt(text.exceptions, UrlPositions(text.exceptions)))
        /\ UrlPositions(text.exceptions) = {} => ret.val = LNumber(0)

\* a list mixing url and other exceptions
C8_Witness ==
    /\ ret.op = "get_urls_length"
    /\ UrlPositions(text.exceptions) # {}
    /\ UrlPositions(text.exceptions) # 1..Len(text.exceptions)
    /\ ret.val.n > 0

(***************************************************************************)
(* Properties of the mime part accessors.                                  *)
(***************************************************************************)
\* C2: get_children of a multipart part is nil or a non-empty table of its
\* children in order, never a table with no entries.
C2_ChildrenNeverEmpty ==
    (ret.op = "get_children" /\ IS_CT_MULTIPART(part.ct)) =>
        \/ ret.val = LNil
        \/ /\ ret.val.t = "table"
           /\ Len(ret.val.tbl) > 0
           /\ \A i \in 1..Len(ret.val.tbl) :
                 ret.val.tbl[i].ptr = part.specific.parts[i]

\* C7: is_broken is true exactly when the part has no content type or its
\* content type carries the broken flag.
C7_IsBroken ==
    ret.op = "is_broken" =>
        /\ ret.val.t = "boolean"
        /\ ret.val.b <=> (part.ct = NULL \/ "BROKEN" \in part.ct.flags)

\* a part without content type reported broken
C7_Witness == ret.op = "is_broken" /\ part.ct = NULL /\ ret.val = LBool(TRUE)

TypeAttrs == ret.val.vals[3].tbl

\* C9: for a content type with a charset and a boundary the table of
\* get_type_full holds the charset under 'charset' and the boundary under a
\* key of its own.
C9_CharsetAndBoundary ==
    (ret.op = "get_type_full" /\ part.ct # NULL
        /\ part.ct.charset # "" /\ part.ct.boundary # "") =>
        /\ "charset" \in DOMAIN TypeAttrs
        /\ TypeAttrs["charset"] = part.ct.charset
        /\ \E k \in DOMAIN TypeAttrs \ {"charset"} :
              TypeAttrs[k] = part.ct.boundary

KindOf(op) ==
    CASE op = "get_text" -> [flag |-> "TEXT", kind |-> "txt",
                             class |-> "rspamd{textpart}"]
      [] op = "get_image" -> [flag |-> "IMAGE", kind |-> "img",
                              class |-> "rspamd{image}"]
      [] op = "get_archive" -> [flag |-> "ARCHIVE", kind |-> "arch",
                                class |-> "rspamd{archive}"]

HasDetail(p, kind) == p.specific # NULL /\ p.specific.kind = kind

\* C10: get_text, get_image and get_archive return the detail of their kind
\* when the flags name that kind and the detail is there, and nil otherwise:
\* never an error, never the detail of another kind.
C10_KindAccessors ==
    ret.op \in {"get_text", "get_image", "get_archive"} =>
        LET k == KindOf(ret.op) IN
        IF k.flag \in part.flags /\ HasDetail(part, k.kind)
        THEN ret.val = LUdata(k.class, part.specific)
        ELSE ret.val = LNil

\* a text part with its detail, asked for an image
C10_Witness ==
    /\ ret.op = "get_image" /\ ret.val = LNil
    /\ "TEXT" \in part.flags /\ HasDetail(part, "txt")

(***************************************************************************)
(* Properties of the header accessors.                                     *)
(***************************************************************************)
HeaderItems(p) == IF p.headers_order = NULL THEN <<>> ELSE p.headers_order.items

LookupMode(op) ==
    CASE op = "get_header" -> [full |-> FALSE, raw |-> FALSE]
      [] op = "get_header_raw" -> [full |-> FALSE, raw |-> TRUE]
      [] op = "get_header_full" -> [full |-> TRUE, raw |-> TRUE]

\* The records a lookup of name has to return: with case_sensitive = true
\* those whose stored name is the requested one, otherwise those whose name
\* is the requested one up to case
Matching(p, name, cs) ==
    SelectSeq(HeaderItems(p),
              LAMBDA h : IF cs = LBool(TRUE) THEN h.name = name
                         ELSE Lower(h.name) = Lower(name))

\* C4: a header lookup returns every record matching the name, in the
\* original order and without merging; the match is caseless unless
\* case_sensitive is true, and then it is exact.
C4_HeaderLookup ==
    ret.op \in {"get_header", "get_header_raw", "get_header_full"} =>
        LET m == Matching(part, ret.args[1].s, ret.args[2])
            mode == LookupMode(ret.op)
        IN IF Len(m) = 0 THEN ret.val = LNil
           ELSE ret.val = LTable([i \in 1..Len(m) |->
                            rspamd_lua_push_header(m[i], mode.full, mode.raw)])

(***************************************************************************)
(* Properties of headers_foreach.                                          *)
(***************************************************************************)
Walking == walk.pc \in {"loop", "break", "done"}

\* the callback is called once more in this step
Invokes == Walking /\ walk'.pc # "idle" /\ walk.pc # "done"
           /\ Len(walk'.calls) > Len(walk.calls)

\* an earlier call of this walk returned true as its first value
StopSignalled ==
    Walking /\ walk.last # LNone /\ walk.last.ok
    /\ Len(walk.last.vals) > 0 /\ walk.last.vals[1] = LBool(TRUE)

InInsertionOrder ==
    Walking =>
        \A i \in 1..Len(walk.calls) :
            /\ walk.calls[i] \in 1..Len(HeaderItems(part))
            /\ \A j \in 1..Len(walk.calls) : i < j => walk.calls[i] < walk.calls[j]

\* C1: headers_foreach calls the callback on the header records in
\* insertion order, and once a call has returned true no further call is
\* made in that walk.
C1_OrderAndStop ==
    /\ []InInsertionOrder
    /\ [][Invokes => ~StopSignalled]_vars

\* a walk ended by a returned true before the last header was reached
C1_Witness ==
    /\ walk.pc = "done" /\ StopSignalled
    /\ Len(walk.calls) > 1
    /\ walk.calls[Len(walk.calls)] < Len(HeaderItems(part))

WalkItems == HeaderItems(part)
WalkCallback == walk.args[1]
WalkParams == walk.args[2]
LastCall == walk.calls[Len(walk.calls)]

\* the walk has returned, with no values and no error
ReturnedNormally == ret = Call("headers_foreach", walk.args, LMulti(<<>>))

\* C15: on a part without headers (no headers_order, or an empty one)
\* headers_foreach never calls the callback and returns normally.
C15_NoHeadersSilent ==
    (Walking /\ WalkItems = <<>>) =>
        /\ walk.calls = <<>>
        /\ walk.pc # "break"
        /\ walk.pc = "done" => ReturnedNormally

\* a walk with a callback over an existing, empty headers_order
C15_Witness ==
    /\ walk.pc = "done" /\ WalkCallback.t = "function"
    /\ part.headers_order = Queue(<<>>)
    /\ walk.calls = <<>>

\* The names the regexp of the params table lets through
HasFilter ==
    /\ WalkParams.t = "table" /\ WalkParams.tbl.regexp.t = "userdata"
    /\ WalkParams.tbl.regexp.ptr.re # NULL

FilterMatches(name) ==
    HasFilter => name \in WalkParams.tbl.regexp.ptr.re.matches

\* The positions up to n of the headers the filter lets through, in order
MatchingUpTo(n) ==
    SelectSeq([i \in 1..Len(WalkItems) |-> i],
              LAMBDA i : i <= n /\ FilterMatches(WalkItems[i].name))

\* the last call returned values of which the first is not the boolean true
LastContinues ==
    /\ walk.last.ok
    /\ Len(walk.last.vals) = 0 \/ walk.last.vals[1] # LBool(TRUE)

BoundedWalk ==
    Walking =>
        /\ Len(walk.calls) <= Len(WalkItems)
        /\ \A i, j \in 1..Len(walk.calls) : i # j => walk.calls[i] # walk.calls[j]
        /\ (walk.pc = "done" /\ WalkCallback.t = "function"
                /\ (walk.calls = <<>> \/ LastContinues))
              => walk.calls = MatchingUpTo(Len(WalkItems))

ContinuesAfterCall ==
    (Invokes /\ walk'.last.ok
        /\ (Len(walk'.last.vals) = 0 \/ walk'.last.vals[1] # LBool(TRUE)))
      => /\ walk'.pc = "loop"
         /\ walk'.cur = IF walk.cur < Len(WalkItems) THEN walk.cur + 1 ELSE 0

\* C16: a walk over N headers ends, after at most N calls and at most one
\* per header; it goes on to the next header after every call whose first
\* result is not the boolean true, so a callback that never returns true is
\* called exactly once for each header the filter lets through.
C16_Terminates ==
    /\ []BoundedWalk
    /\ [][ContinuesAfterCall]_vars
    /\ (walk.pc = "loop") ~> (walk.pc = "done")

\* every header called, the last call returning a number
C16_Witness ==
    /\ walk.pc = "done" /\ Len(WalkItems) > 1
    /\ Len(walk.calls) = Len(WalkItems)
    /\ walk.last = [ok |-> TRUE, vals |-> <<LNumber(1)>>]

\* a call of this walk raised an error
ErrorRaised == Walking /\ walk.last # LNone /\ ~walk.last.ok

\* C17: when a call of the callback raises an error the walk ends at that
\* header: no later call is made, headers_foreach returns normally with no
\* values, and the stack is back at its height before the call.
C17_ErrorEndsWalk ==
    /\ [](ErrorRaised => /\ walk.pc \in {"break", "done"}
                         /\ walk.pc = "done" => ReturnedNormally)
    /\ [][Invokes => ~ErrorRaised]_vars
    /\ [][(Invokes /\ ~walk'.last.ok)
            => (walk'.pc = "break" /\ walk'.top = walk.top)]_vars

\* an error raised before the last header was reached
C17_Witness ==
    /\ walk.pc = "done" /\ ErrorRaised
    /\ LastCall < Len(WalkItems)

\* How far the walk has looked at the headers
Scanned ==
    IF walk.pc = "loop"
    THEN IF walk.cur = 0 THEN Len(WalkItems) ELSE walk.cur - 1
    ELSE IF walk.calls # <<>> /\ ~LastContinues THEN LastCall
    ELSE Len(WalkItems)

\* C18: with a regexp in the params the callback is called exactly for the
\* headers whose name matches, in insertion order; a header that does not
\* match is passed over without a call and without ending the walk.
C18_FilterSelects ==
    (Walking /\ WalkCallback.t = "function" /\ HasFilter) =>
        /\ \A i \in 1..Len(walk.calls) :
              WalkItems[walk.calls[i]].name
                  \in WalkParams.tbl.regexp.ptr.re.matches
        /\ walk.calls = MatchingUpTo(Scanned)

\* a matching header called after one that was passed over
C18_Witness ==
    /\ walk.pc = "done" /\ WalkCallback.t = "function" /\ HasFilter
    /\ walk.calls # <<>> /\ walk.calls[1] > 1

(***************************************************************************)
(* Properties of the analysis results of a text part.                      *)
(***************************************************************************)
\* C11: is_utf is false for a part flagged empty whatever its utf8 flag is,
\* and is the utf8 flag for a part that is not empty.
C11_IsUtf ==
    ret.op = "is_utf" =>
        ret.val = LBool("EMPTY" \notin text.flags /\ "UTF" \in text.flags)

\* an empty part that carries the utf8 flag
C11_Witness ==
    /\ ret.op = "is_utf" /\ {"EMPTY", "UTF"} \subseteq text.flags
    /\ ret.val = LBool(FALSE)

\* The bytes of a word, one by one
WordBytes(w) == [k \in 1..w.len |-> TextBuffer[w.begin + k - 1]]

\* C12: get_words returns the words of normalized_words, as many, the same
\* and in the same order, when the part is not empty and has the array, and
\* an empty table when the part is empty or has no array.
C12_GetWords ==
    ret.op = "get_words" =>
        IF "EMPTY" \in text.flags \/ text.normalized_words = NULL
        THEN ret.val = LTable(<<>>)
        ELSE /\ ret.val.t = "table"
             /\ Len(ret.val.tbl) = Len(text.normalized_words.pdata)
             /\ \A i \in 1..Len(ret.val.tbl) :
                   ret.val.tbl[i] = LString(WordBytes(text.normalized_words.pdata[i]))

\* an empty part that still has two different words
C12_Witness ==
    /\ ret.op = "get_words" /\ "EMPTY" \in text.flags
    /\ text.normalized_words # NULL
    /\ Len(text.normalized_words.pdata) = 2
    /\ text.normalized_words.pdata[1] # text.normalized_words.pdata[2]
    /\ ret.val = LTable(<<>>)

\* C13: get_languages returns the detected languages as code/prob pairs in
\* the order the detector stored them, and an empty table, not nil, when
\* there is no list.
C13_GetLanguages ==
    ret.op = "get_languages" =>
        /\ ret.val.t = "table"
        /\ IF text.languages = NULL THEN Len(ret.val.tbl) = 0
           ELSE /\ Len(ret.val.tbl) = Len(text.languages.pdata)
                /\ \A i \in 1..Len(ret.val.tbl) :
                      /\ ret.val.tbl[i].tbl.code.s = text.languages.pdata[i].lang
                      /\ ret.val.tbl[i].tbl.prob.n = text.languages.pdata[i].prob

\* a part on which the detector did not run
C13_Witness ==
    ret.op = "get_languages" /\ text.languages = NULL /\ ret.val = LTable(<<>>)

(***************************************************************************)
(* No accessor writes to the parts.                                        *)
(***************************************************************************)
\* What a call of an accessor returns on the parts as they are now
Answer(op, args) ==
    CASE op = "get_content" -> lua_textpart_get_content(text, args[1])
      [] op = "get_header" -> lua_mimepart_get_header(part, args[1].s)
      [] op = "get_header_raw" -> lua_mimepart_get_header_raw(part, args[1].s)
      [] op = "get_header_full" -> lua_mimepart_get_header_full(part, args[1].s)
      [] op = "get_raw_content" -> lua_textpart_get_raw_content(text)
      [] op = "get_content_oneline" -> lua_textpart_get_content_oneline(text)
      [] op = "get_lines_count" -> lua_textpart_get_lines_count(text)
      [] op = "get_stats" -> lua_textpart_get_stats(text)
      [] op = "is_utf" -> lua_textpart_is_utf(text)
      [] op = "get_urls_length" -> lua_textpart_get_urls_length(text)
      [] op = "get_words" -> lua_textpart_get_words(text)
      [] op = "get_words_count" -> lua_textpart_get_words_count(text)
      [] op = "get_languages" -> lua_textpart_get_languages(text)
      [] op = "get_language" -> lua_textpart_get_language(text)
      [] op = "get_length" -> lua_textpart_get_length(text)
      [] op = "get_html" -> lua_textpart_get_html(text)
      [] op = "get_mimepart" -> lua_textpart_get_mimepart(text)
      [] op = "is_broken" -> lua_mimepart_is_broken(part)
      [] op = "get_type" -> lua_mimepart_get_type(part)
      [] op = "get_type_full" -> lua_mimepart_get_type_full(part)
      [] op = "get_image" -> lua_mimepart_get_image(part)
      [] op = "get_archive" -> lua_mimepart_get_archive(part)
      [] op = "get_text" -> lua_mimepart_get_text(part)
      [] op = "get_children" -> lua_mimepart_get_children(part)
      [] op = "get_cte" -> lua_mimepart_get_cte(part)
      [] op = "get_filename" -> lua_mimepart_get_filename(part)
      [] op = "get_digest" -> lua_mimepart_get_digest(part)
      [] op = "has_8bit_raw" -> LBool("8BIT" \in text.flags)
      [] op = "has_8bit" -> LBool("8BIT_ENCODED" \in text.flags)
      [] op = "get_raw_length" -> LNumber(text.raw.len)
      [] op = "is_empty" -> LBool("EMPTY" \in text.flags)
      [] op = "is_html" -> LBool("HTML" \in text.flags)
      [] op = "mimepart.get_content" ->
            LText(part.parsed_data.begin, part.parsed_data.len)
      [] op = "mimepart.get_raw_content" ->
            LText(part.raw_data.begin, part.raw_data.len)
      [] op = "mimepart.get_length" -> LNumber(part.parsed_data.len)
      [] op = "is_image" -> LBool("IMAGE" \in part.flags)
      [] op = "is_archive" -> LBool("ARCHIVE" \in part.flags)
      [] op = "is_multipart" ->
            LBool(part.ct # NULL /\ "MULTIPART" \in part.ct.flags)
      [] op = "is_text" -> LBool("TEXT" \in part.flags)
      [] OTHER -> LNone

\* The last result of an accessor is what the accessor returns now
SameAnswer ==
    ret.op \notin {"none", "headers_foreach"} => ret.val = Answer(ret.op, ret.args)

\* C14: no call of an accessor, in any order and between the iterations of
\* a walk with any callback, changes a field of the text part or of the mime
\* part, its headers included, so that an accessor's result stays the one a
\* new call would return.
C14_NoAccessorWrites ==
    /\ [][text' = text /\ part' = part]_vars
    /\ []SameAnswer

\* an accessor was called between two iterations of a walk
C14_Witness ==
    /\ walk.pc = "loop" /\ Len(walk.calls) = 1
    /\ part.headers_order # NULL /\ Len(part.headers_order.items) = 2
    /\ ret.op = "get_header" /\ ret.val # LNil

====
